---- MODULE Spec2Model ----
(***************************************************************************)
(* Turn queues (BattleQueue, RestrictedBattleQueue), skills and the two    *)
(* minimax score functions of the battle game, as a state machine over an  *)
(* object heap: characters and queues are heap objects that refer to each  *)
(* other by identity, as the Python objects do.                            *)
(***************************************************************************)
EXTENDS Integers, Sequences, FiniteSets, TLC

VARIABLES heap, last, copyOps, search, decision

vars == <<heap, last, copyOps, search, decision>>

\* ------------------------------------------------------------------ bounds

\* Longest combatant sequence an add of the state machine may start from.
MaxLen == 3
\* Operations performed on a copy before it is dropped.
MaxCopyOps == 2
\* Most nodes of a SkillDecisionTree that pick_skill is called on.
MaxNodes == 4

\* ------------------------------------------------------------ object heap

\* Python's None, as a character reference.
NoChar == 0
\* The queue of the match is object 1; object 2 is the slot of a copy.
QIds == 1 .. 2
\* The characters built for queue q: the first and the second one.
FirstChar(q) == 2 * q - 1
SecondChar(q) == 2 * q
CharIds == 1 .. 4

Other(q) == 3 - q

Classes == {"Mage", "Rogue"}

\* A slot of the heap that holds no object.
NoCharRec == [cls |-> "none", hp |-> 0, sp |-> 0, enemy |-> NoChar, bq |-> 0]
NoQueueRec == [kind |-> "none", content |-> <<>>, status |-> <<>>,
               p1 |-> NoChar, p2 |-> NoChar]

\* BattleQueue.__init__ and RestrictedBattleQueue.__init__.
BattleQueueInit(kind) == [kind |-> kind, content |-> <<>>, status |-> <<>>,
                          p1 |-> NoChar, p2 |-> NoChar]

\* ------------------------------------------------------------------ skills

MageAttackCost == 5
MageAttackDamage == 20
MageSpecialCost == 30
MageSpecialDamage == 40
RogueAttackCost == 3
RogueAttackDamage == 15
RogueSpecialCost == 10
RogueSpecialDamage == 20
VampireAttackCost == 15
VampireAttackDamage == 20
VampireSpecialCost == 20
VampireSpecialDamage == 30
SorcererAttackCost == 15
SorcererAttackDamage == 0
SorcererSpecialCost == 20
SorcererSpecialDamage == 25

\* The skill objects a character of class cls holds for 'A' and for 'S'.
AttackSkill(cls) == IF cls = "Mage" THEN "MageAttack" ELSE "RogueAttack"
SpecialSkill(cls) == IF cls = "Mage" THEN "MageSpecial" ELSE "RogueSpecial"

get_sp_cost(skill) ==
    CASE skill = "MageAttack" -> MageAttackCost
      [] skill = "MageSpecial" -> MageSpecialCost
      [] skill = "RogueAttack" -> RogueAttackCost
      [] skill = "RogueSpecial" -> RogueSpecialCost
      [] skill = "VampireAttack" -> VampireAttackCost
      [] skill = "VampireSpecial" -> VampireSpecialCost
      [] skill = "SorcererAttack" -> SorcererAttackCost
      [] skill = "SorcererSpecial" -> SorcererSpecialCost

SkillDamage(skill) ==
    CASE skill = "MageAttack" -> MageAttackDamage
      [] skill = "MageSpecial" -> MageSpecialDamage
      [] skill = "RogueAttack" -> RogueAttackDamage
      [] skill = "RogueSpecial" -> RogueSpecialDamage
      [] skill = "VampireAttack" -> VampireAttackDamage
      [] skill = "VampireSpecial" -> VampireSpecialDamage
      [] skill = "SorcererAttack" -> SorcererAttackDamage
      [] skill = "SorcererSpecial" -> SorcererSpecialDamage

\* ------------------------------------------------- characters (collaborator)

MageDefense == 8
RogueDefense == 10

Defense(cls) == IF cls = "Mage" THEN MageDefense ELSE RogueDefense

Max(a, b) == IF a >= b THEN a ELSE b

\* Character.get_available_actions: 'A' and 'S' are listed, in that order,
\* when the character's SP covers the skill's cost.
get_available_actions(h, c) ==
    LET ch == h.chars[c]
        a == IF ch.sp >= get_sp_cost(AttackSkill(ch.cls)) THEN <<"A">> ELSE <<>>
        s == IF ch.sp >= get_sp_cost(SpecialSkill(ch.cls)) THEN <<"S">> ELSE <<>>
    IN  a \o s

\* Character.reduce_sp and Character.apply_damage.
reduce_sp(h, c, cost) == [h EXCEPT !.chars[c].sp = @ - cost]
apply_damage(h, c, damage) ==
    [h EXCEPT !.chars[c].hp = Max(0, @ - Max(0, damage - Defense(h.chars[c].cls)))]

\* Character.copy(new_battle_queue): a new character object at slot n with the
\* same class, HP and SP, bound to queue nq; its enemy is not set yet.
CharacterCopy(h, c, n, nq) ==
    [h EXCEPT !.chars[n] = [cls |-> h.chars[c].cls, hp |-> h.chars[c].hp,
                            sp |-> h.chars[c].sp, enemy |-> NoChar, bq |-> nq]]

\* ------------------------------------------------------------- BattleQueue

\* _clean_queue with an if in place of the while: one entry at most is popped.
BQ_clean_queue_once(h, q) ==
    LET content == h.queues[q].content
    IN  IF content # <<>> /\ get_available_actions(h, Head(content)) = <<>>
        THEN [h EXCEPT !.queues[q].content = Tail(content)]
        ELSE h

RECURSIVE BQ_clean_queue(_, _)
BQ_clean_queue(h, q) ==
    LET content == h.queues[q].content
    IN  IF content # <<>> /\ get_available_actions(h, Head(content)) = <<>>
        THEN BQ_clean_queue([h EXCEPT !.queues[q].content = Tail(content)], q)
        ELSE h

\* add that fixes the sides whenever the new entry is the only one.
BQ_add_sides_on_refill(h, q, character) ==
    LET h1 == [h EXCEPT !.queues[q].content = Append(@, character)]
    IN  IF h1.queues[q].content = <<character>>
        THEN [h1 EXCEPT !.queues[q].p1 = character,
                        !.queues[q].p2 = h.chars[character].enemy]
        ELSE h1

BQ_add(h, q, character) ==
    LET h1 == [h EXCEPT !.queues[q].content = Append(@, character)]
    IN  IF h1.queues[q].p1 = NoChar
        THEN [h1 EXCEPT !.queues[q].p1 = character,
                        !.queues[q].p2 = h.chars[character].enemy]
        ELSE h1

\* ---------------------------------------------------- RestrictedBattleQueue

RECURSIVE CountAbleCopies(_, _, _, _)
CountAbleCopies(content, status, character, i) ==
    IF i > Len(content) THEN 0
    ELSE (IF content[i] = character /\ status[i] = "Y" THEN 1 ELSE 0)
         + CountAbleCopies(content, status, character, i + 1)

\* third_rule with the cap off by one.
third_rule_cap3(h, q, character) ==
    LET count == CountAbleCopies(h.queues[q].content, h.queues[q].status, character, 1)
    IN  [h EXCEPT !.queues[q].status = Append(@, IF count <= 2 THEN "Y" ELSE "N"),
                  !.queues[q].content = Append(@, character)]

\* third_rule that counts the copies marked 'N' too.
third_rule_counts_all(h, q, character) ==
    LET count == Cardinality({i \in DOMAIN h.queues[q].content :
                                 h.queues[q].content[i] = character})
    IN  [h EXCEPT !.queues[q].status = Append(@, IF count < 2 THEN "Y" ELSE "N"),
                  !.queues[q].content = Append(@, character)]

third_rule(h, q, character) ==
    LET count == CountAbleCopies(h.queues[q].content, h.queues[q].status, character, 1)
    IN  [h EXCEPT !.queues[q].status = Append(@, IF count < 2 THEN "Y" ELSE "N"),
                  !.queues[q].content = Append(@, character)]

\* self._content.append(character) with self._status.append(mark).
AppendMarked(h, q, character, mark) ==
    [h EXCEPT !.queues[q].content = Append(@, character),
              !.queues[q].status = Append(@, mark)]

\* add without the two branches for the second character's first add.
RBQ_add_no_second_bootstrap(h, q, character) ==
    LET Q == h.queues[q]
    IN  IF Q.content = <<>> /\ Q.p1 = NoChar
        THEN [AppendMarked(h, q, character, "Y")
                 EXCEPT !.queues[q].p1 = character,
                        !.queues[q].p2 = h.chars[character].enemy]
        ELSE IF Q.status # <<>> /\ Q.status[1] = "Y"
        THEN IF Q.content[1] = h.chars[character].enemy
             THEN AppendMarked(h, q, character, "N")
             ELSE third_rule(h, q, character)
        ELSE IF Q.status = <<>> THEN AppendMarked(h, q, character, "Y")
        ELSE h

\* add that sends the enemy of the front entry through third_rule as well.
RBQ_add_enemy_by_third_rule(h, q, character) ==
    LET Q == h.queues[q]
    IN  IF Q.content = <<>> /\ Q.p1 = NoChar
        THEN [AppendMarked(h, q, character, "Y")
                 EXCEPT !.queues[q].p1 = character,
                        !.queues[q].p2 = h.chars[character].enemy]
        ELSE IF Q.content = <<Q.p1>> /\ Q.p2 = character
        THEN AppendMarked(h, q, character, "Y")
        ELSE IF Q.content = <<Q.p2>> /\ Q.p1 = character
        THEN AppendMarked(h, q, character, "Y")
        ELSE IF Q.status # <<>> /\ Q.status[1] = "Y"
        THEN third_rule(h, q, character)
        ELSE IF Q.status = <<>> THEN AppendMarked(h, q, character, "Y")
        ELSE h

\* add without the branch for a drained queue.
RBQ_add_drained_ignored(h, q, character) ==
    LET Q == h.queues[q]
    IN  IF Q.content = <<>> /\ Q.p1 = NoChar
        THEN [AppendMarked(h, q, character, "Y")
                 EXCEPT !.queues[q].p1 = character,
                        !.queues[q].p2 = h.chars[character].enemy]
        ELSE IF Q.content = <<Q.p1>> /\ Q.p2 = character
        THEN AppendMarked(h, q, character, "Y")
        ELSE IF Q.content = <<Q.p2>> /\ Q.p1 = character
        THEN AppendMarked(h, q, character, "Y")
        ELSE IF Q.status # <<>> /\ Q.status[1] = "Y"
        THEN IF Q.content[1] = h.chars[character].enemy
             THEN AppendMarked(h, q, character, "N")
             ELSE third_rule(h, q, character)
        ELSE h

\* add that does not look at the front entry's marker.
RBQ_add_any_front(h, q, character) ==
    LET Q == h.queues[q]
    IN  IF Q.content = <<>> /\ Q.p1 = NoChar
        THEN [AppendMarked(h, q, character, "Y")
                 EXCEPT !.queues[q].p1 = character,
                        !.queues[q].p2 = h.chars[character].enemy]
        ELSE IF Q.content = <<Q.p1>> /\ Q.p2 = character
        THEN AppendMarked(h, q, character, "Y")
        ELSE IF Q.content = <<Q.p2>> /\ Q.p1 = character
        THEN AppendMarked(h, q, character, "Y")
        ELSE IF Q.status # <<>>
        THEN IF Q.content[1] = h.chars[character].enemy
             THEN AppendMarked(h, q, character, "N")
             ELSE third_rule(h, q, character)
        ELSE AppendMarked(h, q, character, "Y")

RBQ_add(h, q, character) ==
    LET Q == h.queues[q]
    IN  IF Q.content = <<>> /\ Q.p1 = NoChar
        THEN [h EXCEPT !.queues[q].content = Append(@, character),
                       !.queues[q].p1 = character,
                       !.queues[q].p2 = h.chars[character].enemy,
                       !.queues[q].status = Append(@, "Y")]
        ELSE IF Q.content = <<Q.p1>> /\ Q.p2 = character
        THEN [h EXCEPT !.queues[q].content = Append(@, character),
                       !.queues[q].status = Append(@, "Y")]
        ELSE IF Q.content = <<Q.p2>> /\ Q.p1 = character
        THEN [h EXCEPT !.queues[q].content = Append(@, character),
                       !.queues[q].status = Append(@, "Y")]
        ELSE IF Q.status # <<>> /\ Q.status[1] = "Y"
        THEN IF Q.content[1] = h.chars[character].enemy
             THEN [h EXCEPT !.queues[q].content = Append(@, character),
                            !.queues[q].status = Append(@, "N")]
             ELSE third_rule(h, q, character)
        ELSE IF Q.status = <<>>
        THEN [h EXCEPT !.queues[q].content = Append(@, character),
                       !.queues[q].status = Append(@, "Y")]
        ELSE h

\* _clean_queue that pops the combatant sequence alone.
RBQ_clean_queue_content_only(h, q) == BQ_clean_queue(h, q)

RECURSIVE RBQ_clean_queue(_, _)
RBQ_clean_queue(h, q) ==
    LET content == h.queues[q].content
    IN  IF content # <<>> /\ get_available_actions(h, Head(content)) = <<>>
        THEN RBQ_clean_queue([h EXCEPT !.queues[q].content = Tail(content),
                                       !.queues[q].status = Tail(@)], q)
        ELSE h

\* ------------------------------------- method dispatch on the queue's class

clean_queue(h, q) ==
    IF h.queues[q].kind = "RBQ" THEN RBQ_clean_queue(h, q) ELSE BQ_clean_queue(h, q)

add(h, q, character) ==
    IF h.queues[q].kind = "RBQ" THEN RBQ_add(h, q, character) ELSE BQ_add(h, q, character)

\* A call's outcome: the heap after it, the value returned (a character
\* reference in c, a boolean in b) and the exception raised, if any.
Returned(h, c, b) == [h |-> h, c |-> c, b |-> b, err |-> "none"]
Raised(h, err) == [h |-> h, c |-> NoChar, b |-> FALSE, err |-> err]

\* remove that does not clean first.
BQ_remove_no_clean(h, q) ==
    IF h.queues[q].content = <<>> THEN Raised(h, "IndexError")
    ELSE Returned([h EXCEPT !.queues[q].content = Tail(@)],
                  Head(h.queues[q].content), FALSE)

BQ_remove(h, q) ==
    LET h1 == clean_queue(h, q)
    IN  IF h1.queues[q].content = <<>> THEN Raised(h1, "IndexError")
        ELSE Returned([h1 EXCEPT !.queues[q].content = Tail(@)],
                      Head(h1.queues[q].content), FALSE)

\* remove that returns None on a sequence that is empty after cleaning.
RBQ_remove_none_when_empty(h, q) ==
    LET h1 == clean_queue(h, q)
    IN  IF h1.queues[q].status = <<>> THEN Returned(h1, NoChar, FALSE)
        ELSE Returned([h1 EXCEPT !.queues[q].status = Tail(@),
                                 !.queues[q].content = Tail(@)],
                      Head(h1.queues[q].content), FALSE)

\* remove that pops the last marker in place of the first.
RBQ_remove_pops_last_marker(h, q) ==
    LET h1 == clean_queue(h, q)
    IN  IF h1.queues[q].status = <<>> THEN Raised(h1, "IndexError")
        ELSE Returned([h1 EXCEPT !.queues[q].status = SubSeq(@, 1, Len(@) - 1),
                                 !.queues[q].content = Tail(@)],
                      Head(h1.queues[q].content), FALSE)

RBQ_remove(h, q) ==
    LET h1 == clean_queue(h, q)
    IN  IF h1.queues[q].status = <<>> THEN Raised(h1, "IndexError")
        ELSE LET h2 == [h1 EXCEPT !.queues[q].status = Tail(@)]
             IN  IF h2.queues[q].content = <<>> THEN Raised(h2, "IndexError")
                 ELSE Returned([h2 EXCEPT !.queues[q].content = Tail(@)],
                               Head(h2.queues[q].content), FALSE)

remove(h, q) ==
    IF h.queues[q].kind = "RBQ" THEN RBQ_remove(h, q) ELSE BQ_remove(h, q)

is_empty(h, q) ==
    LET h1 == clean_queue(h, q)
    IN  Returned(h1, NoChar, h1.queues[q].content = <<>>)

\* peek that returns the front entry as it stands, without cleaning.
peek_no_clean(h, q) ==
    IF h.queues[q].content # <<>>
    THEN Returned(h, Head(h.queues[q].content), FALSE)
    ELSE Returned(h, h.queues[q].p1, FALSE)

peek(h, q) ==
    LET h1 == clean_queue(h, q)
    IN  IF h1.queues[q].content # <<>>
        THEN Returned(h1, Head(h1.queues[q].content), FALSE)
        ELSE Returned(h1, h1.queues[q].p1, FALSE)

\* is_over that looks at the HP of side p1 alone.
is_over_p1_only(h, q) ==
    LET e == is_empty(h, q)
    IN  IF e.b THEN Returned(e.h, NoChar, TRUE)
        ELSE Returned(e.h, NoChar, e.h.chars[e.h.queues[q].p1].hp = 0)

is_over(h, q) ==
    LET e == is_empty(h, q)
    IN  IF e.b THEN Returned(e.h, NoChar, TRUE)
        ELSE IF e.h.queues[q].p1 = NoChar \/ e.h.queues[q].p2 = NoChar
        THEN Raised(e.h, "AttributeError")
        ELSE Returned(e.h, NoChar,
                      e.h.chars[e.h.queues[q].p1].hp = 0
                      \/ e.h.chars[e.h.queues[q].p2].hp = 0)

\* get_winner that returns the side whose HP is 0.
get_winner_side_down(h, q) ==
    LET o == is_over(h, q)
    IN  IF o.err # "none" THEN o
        ELSE IF ~o.b THEN Returned(o.h, NoChar, FALSE)
        ELSE IF o.h.queues[q].p1 = NoChar \/ o.h.queues[q].p2 = NoChar
        THEN Raised(o.h, "AttributeError")
        ELSE IF o.h.chars[o.h.queues[q].p1].hp = 0
        THEN Returned(o.h, o.h.queues[q].p1, FALSE)
        ELSE IF o.h.chars[o.h.queues[q].p2].hp = 0
        THEN Returned(o.h, o.h.queues[q].p2, FALSE)
        ELSE Returned(o.h, NoChar, FALSE)

get_winner(h, q) ==
    LET o == is_over(h, q)
    IN  IF o.err # "none" THEN o
        ELSE IF ~o.b THEN Returned(o.h, NoChar, FALSE)
        ELSE IF o.h.queues[q].p1 = NoChar \/ o.h.queues[q].p2 = NoChar
        THEN Raised(o.h, "AttributeError")
        ELSE IF o.h.chars[o.h.queues[q].p1].hp = 0
        THEN Returned(o.h, o.h.queues[q].p2, FALSE)
        ELSE IF o.h.chars[o.h.queues[q].p2].hp = 0
        THEN Returned(o.h, o.h.queues[q].p1, FALSE)
        ELSE Returned(o.h, NoChar, FALSE)

\* ------------------------------------------------------------------- copy

\* The for loop of BattleQueue.copy over self._content, from entry i on. An
\* entry that is not self._p1 is added as p2_copy and the statements that
\* follow in that branch then read the undefined name S.
RECURSIVE BQ_copy_loop(_, _, _, _)
BQ_copy_loop(h, src, dst, i) ==
    IF i > Len(h.queues[src].content) THEN Returned(h, NoChar, FALSE)
    ELSE IF h.queues[src].content[i] = h.queues[src].p1
    THEN BQ_copy_loop(add(h, dst, FirstChar(dst)), src, dst, i + 1)
    ELSE Raised(add(h, dst, SecondChar(dst)), "NameError")

\* The new queue object at slot dst with the two character copies, each the
\* other's enemy.
CopyCharacters(h, src, dst, kind) ==
    LET h1 == [h EXCEPT !.queues[dst] = BattleQueueInit(kind)]
        h2 == CharacterCopy(h1, h.queues[src].p1, FirstChar(dst), dst)
        h3 == CharacterCopy(h2, h.queues[src].p2, SecondChar(dst), dst)
    IN  [h3 EXCEPT !.chars[FirstChar(dst)].enemy = SecondChar(dst),
                   !.chars[SecondChar(dst)].enemy = FirstChar(dst)]

BQ_copy(h, src, dst) ==
    IF h.queues[src].p1 = NoChar \/ h.queues[src].p2 = NoChar
    THEN Raised(h, "AttributeError")
    ELSE LET h1 == CopyCharacters(h, src, dst, "BQ")
             h2 == add(h1, dst, FirstChar(dst))
             e == is_empty(h2, dst)
             h3 == IF ~e.b THEN remove(e.h, dst).h ELSE e.h
         IN  BQ_copy_loop(h3, src, dst, 1)

\* The loop adding the source's own characters instead of their copies.
RECURSIVE RBQ_copy_loop_shallow(_, _, _, _)
RBQ_copy_loop_shallow(h, src, dst, i) ==
    IF i > Len(h.queues[src].content) THEN Returned(h, NoChar, FALSE)
    ELSE RBQ_copy_loop_shallow(add(h, dst, h.queues[src].content[i]), src, dst, i + 1)

\* The for loop of RestrictedBattleQueue.copy, from entry i on.
RECURSIVE RBQ_copy_loop(_, _, _, _)
RBQ_copy_loop(h, src, dst, i) ==
    IF i > Len(h.queues[src].content) THEN Returned(h, NoChar, FALSE)
    ELSE IF h.queues[src].content[i] = h.queues[src].p1
    THEN RBQ_copy_loop(add(h, dst, FirstChar(dst)), src, dst, i + 1)
    ELSE RBQ_copy_loop(add(h, dst, SecondChar(dst)), src, dst, i + 1)

RBQ_copy(h, src, dst) ==
    IF h.queues[src].p1 = NoChar \/ h.queues[src].p2 = NoChar
    THEN Raised(h, "AttributeError")
    ELSE LET h1 == CopyCharacters(h, src, dst, "RBQ")
             h2 == [h1 EXCEPT !.queues[dst].p1 = FirstChar(dst),
                              !.queues[dst].p2 = SecondChar(dst)]
         IN  RBQ_copy_loop(h2, src, dst, 1)

\* q.copy(): the copy is built at slot dst and is only returned (visible to
\* the caller) when no exception is raised.
copy(h, src, dst) ==
    IF h.queues[src].kind = "RBQ" THEN RBQ_copy(h, src, dst) ELSE BQ_copy(h, src, dst)

\* ------------------------------------------------------------- skills' use

\* deal_damage where the caster also gains the target's defense as hit-points.
deal_damage_heals_caster(h, skill, caster, target) ==
    LET h1 == apply_damage(reduce_sp(h, caster, get_sp_cost(skill)), target, SkillDamage(skill))
    IN  [h1 EXCEPT !.chars[caster].hp = @ + Defense(h.chars[target].cls)]

deal_damage(h, skill, caster, target) ==
    apply_damage(reduce_sp(h, caster, get_sp_cost(skill)), target, SkillDamage(skill))

NormalAttack_use(h, skill, caster, target) ==
    LET h1 == deal_damage(h, skill, caster, target)
    IN  add(h1, h1.chars[caster].bq, caster)

MageSpecial_use(h, caster, target) ==
    LET h1 == deal_damage(h, "MageSpecial", caster, target)
        h2 == add(h1, h1.chars[caster].bq, target)
    IN  add(h2, h2.chars[caster].bq, caster)

RogueSpecial_use(h, caster, target) ==
    LET h1 == deal_damage(h, "RogueSpecial", caster, target)
        h2 == add(h1, h1.chars[caster].bq, caster)
    IN  add(h2, h2.chars[caster].bq, caster)

\* Character.attack() and Character.special_attack(): the character's skill
\* used on its enemy.
attack(h, c) == NormalAttack_use(h, AttackSkill(h.chars[c].cls), c, h.chars[c].enemy)

special_attack(h, c) ==
    IF h.chars[c].cls = "Mage" THEN MageSpecial_use(h, c, h.chars[c].enemy)
    ELSE RogueSpecial_use(h, c, h.chars[c].enemy)

\* ------------------------------------------------------ SkillDecisionTree

\* A SkillDecisionTree is a sequence of nodes, the root first; a node holds
\* its value (a skill), the name of its condition function, its priority
\* number and its children (their places in the sequence, in order).
Node(value, condition, priority, children) ==
    [value |-> value, condition |-> condition, priority |-> priority,
     children |-> children]

\* create_default_tree(): t5, t3, t2, t1, t4, t6, t8, t7.
create_default_tree ==
    << Node("MageAttack", "caster_hp_more_than_50", 5, <<2, 3, 4>>),
       Node("MageAttack", "caster_sp_more_than_20", 3, <<5>>),
       Node("MageSpecial", "target_sp_more_than_40", 2, <<7>>),
       Node("RogueAttack", "caster_hp_more_than_90", 1, <<8>>),
       Node("RogueSpecial", "target_hp_less_than_30", 4, <<6>>),
       Node("RogueAttack", "leaf_function", 6, <<>>),
       Node("RogueAttack", "leaf_function", 8, <<>>),
       Node("RogueSpecial", "leaf_function", 7, <<>>) >>

\* condition(caster, target): the boolean returned, or the TypeError of
\* calling leaf_function, which takes no argument, with two.
condition_call(name, h, caster, target) ==
    CASE name = "leaf_function" -> Raised(h, "TypeError")
      [] name = "target_hp_less_than_30" -> Returned(h, NoChar, h.chars[target].hp < 30)
      [] name = "caster_sp_more_than_20" -> Returned(h, NoChar, h.chars[caster].sp > 20)
      [] name = "target_sp_more_than_40" -> Returned(h, NoChar, h.chars[target].sp > 40)
      [] name = "caster_hp_more_than_90" -> Returned(h, NoChar, h.chars[caster].hp > 90)
      [] name = "caster_hp_more_than_50" -> Returned(h, NoChar, h.chars[caster].hp > 50)

\* The while loop of pick_skill: q is the list of nodes still to visit,
\* skill_list the nodes kept so far, called the nodes whose condition has
\* been called.
RECURSIVE pick_skill_loop(_, _, _, _, _, _, _)
pick_skill_loop(tree, h, caster, target, q, skill_list, called) ==
    IF q = <<>> THEN [err |-> "none", skill_list |-> skill_list, called |-> called]
    ELSE LET skill_node == Head(q)
             rest == Tail(q)
             node == tree[skill_node]
         IN  IF node.children = <<>>
             THEN pick_skill_loop(tree, h, caster, target, rest,
                                  Append(skill_list, skill_node), called)
             ELSE LET c == condition_call(node.condition, h, caster, target)
                  IN  IF c.err # "none"
                      THEN [err |-> c.err, skill_list |-> skill_list,
                            called |-> called \cup {skill_node}]
                      ELSE IF ~c.b
                      THEN pick_skill_loop(tree, h, caster, target, rest,
                                           Append(skill_list, skill_node),
                                           called \cup {skill_node})
                      ELSE pick_skill_loop(tree, h, caster, target,
                                           rest \o node.children, skill_list,
                                           called \cup {skill_node})

\* The for loop that keeps the item of larger priority number.
RECURSIVE highest_priority_loop_largest(_, _, _, _)
highest_priority_loop_largest(tree, skill_list, i, highest_priority) ==
    IF i > Len(skill_list) THEN highest_priority
    ELSE highest_priority_loop_largest(tree, skill_list, i + 1,
            IF tree[skill_list[i]].priority > tree[highest_priority].priority
            THEN skill_list[i] ELSE highest_priority)

\* The for loop of pick_skill over skill_list from item i on:
\* highest_priority is replaced by an item of smaller priority number.
RECURSIVE highest_priority_loop(_, _, _, _)
highest_priority_loop(tree, skill_list, i, highest_priority) ==
    IF i > Len(skill_list) THEN highest_priority
    ELSE highest_priority_loop(tree, skill_list, i + 1,
            IF tree[skill_list[i]].priority < tree[highest_priority].priority
            THEN skill_list[i] ELSE highest_priority)

\* tree.pick_skill(caster, target): the skill returned (with the node it is
\* the value of) or the exception raised, and the nodes whose condition was
\* called.
pick_skill(tree, h, caster, target) ==
    LET r == pick_skill_loop(tree, h, caster, target, <<1>>, <<>>, {})
    IN  IF r.err # "none"
        THEN [err |-> r.err, value |-> "none", node |-> 0, called |-> r.called]
        ELSE IF r.skill_list = <<>>
        THEN [err |-> "IndexError", value |-> "none", node |-> 0, called |-> r.called]
        ELSE LET n == highest_priority_loop(tree, r.skill_list, 1, r.skill_list[1])
             IN  [err |-> "none", value |-> tree[n].value, node |-> n,
                  called |-> r.called]

\* ------------------------------------------ Vampire and Sorcerer skills

VampireSpecial_use(h, caster, target) ==
    LET h1 == deal_damage(h, "VampireSpecial", caster, target)
        h2 == add(h1, h1.chars[caster].bq, caster)
        h3 == add(h2, h2.chars[caster].bq, caster)
    IN  add(h3, h3.chars[caster].bq, target)

\* while caster.battle_queue.is_empty() is False:
\*     caster.battle_queue.remove()
RECURSIVE remove_all(_, _)
remove_all(h, q) ==
    LET e == is_empty(h, q)
    IN  IF e.b THEN e.h ELSE remove_all(remove(e.h, q).h, q)

\* use with an if in place of the while: one entry at most is removed.
SorcererSpecial_use_removes_once(h, caster, target) ==
    LET h1 == deal_damage(h, "SorcererSpecial", caster, target)
        e == is_empty(h1, h1.chars[caster].bq)
        h2 == IF e.b THEN e.h ELSE remove(e.h, h1.chars[caster].bq).h
        h3 == add(h2, h2.chars[caster].bq, caster)
        h4 == add(h3, h3.chars[caster].bq, target)
    IN  add(h4, h4.chars[caster].bq, caster)

SorcererSpecial_use(h, caster, target) ==
    LET h1 == deal_damage(h, "SorcererSpecial", caster, target)
        h2 == remove_all(h1, h1.chars[caster].bq)
        h3 == add(h2, h2.chars[caster].bq, caster)
        h4 == add(h3, h3.chars[caster].bq, target)
    IN  add(h4, h4.chars[caster].bq, caster)

\* skill.use(caster, target) of a skill that picks no other skill.
Skill_use(h, skill, caster, target) ==
    CASE skill \in {"MageAttack", "RogueAttack", "VampireAttack"} ->
            NormalAttack_use(h, skill, caster, target)
      [] skill = "MageSpecial" -> MageSpecial_use(h, caster, target)
      [] skill = "RogueSpecial" -> RogueSpecial_use(h, caster, target)
      [] skill = "VampireSpecial" -> VampireSpecial_use(h, caster, target)
      [] skill = "SorcererSpecial" -> SorcererSpecial_use(h, caster, target)

\* SorcererAttack.use(caster, target), tree being caster.skill_decision_tree:
\* the heap it leaves, or the exception that leaves it. A tree that picks
\* SorcererAttack itself makes the call recurse until RecursionError.
SorcererAttack_use(h, tree, caster, target) ==
    LET p == pick_skill(tree, h, caster, target)
        old_sp == h.chars[caster].sp
    IN  IF p.err # "none" THEN Raised(h, p.err)
        ELSE IF p.value = "SorcererAttack" THEN Raised(h, "RecursionError")
        ELSE LET h1 == Skill_use(h, p.value, caster, target)
                 h2 == [h1 EXCEPT !.chars[caster].sp = old_sp - 15]
             IN  Returned(add(h2, h2.chars[caster].bq, caster), NoChar, FALSE)

\* skill.use(caster, target) for any skill; the Sorcerer's tree is the one
\* of create_default_tree().
use(h, skill, caster, target) ==
    IF skill = "SorcererAttack"
    THEN SorcererAttack_use(h, create_default_tree, caster, target)
    ELSE Returned(Skill_use(h, skill, caster, target), NoChar, FALSE)

\* ------------------------------------------------------- get_state_score

\* A score function's outcome: the int returned, or the exception raised.
ScoreVal(v) == [err |-> "none", v |-> v]
ScoreErr(e) == [err |-> e, v |-> 0]

\* score * (-1) and max(a, b); an exception raised while computing an
\* operand (a before b) is the outcome.
Negated(s) == IF s.err = "none" THEN ScoreVal(0 - s.v) ELSE s
MaxScore(a, b) ==
    IF a.err # "none" THEN a
    ELSE IF b.err # "none" THEN b
    ELSE ScoreVal(Max(a.v, b.v))

\* `if c.get_available_actions() != []: q.remove()` after c's action.
RemoveIfAble(h, q, c) ==
    IF get_available_actions(h, c) # <<>> THEN remove(h, q) ELSE Returned(h, NoChar, FALSE)

\* The snapshot reached from heap h by the action ("A" or "S") of character c,
\* the front of queue q, followed by the conditional remove.
AfterAction(h, q, c, action) ==
    RemoveIfAble(IF action = "A" THEN attack(h, c) ELSE special_attack(h, c), q, c)

\* score if same else score * (-1).
Signed(same, s) == IF same THEN s ELSE Negated(s)

RECURSIVE get_state_score(_, _)
get_state_score(h, battle_queue) ==
    LET bq == Other(battle_queue)
        made == copy(h, battle_queue, bq)
    IN  IF made.err # "none" THEN ScoreErr(made.err)
        ELSE
        LET pk == peek(made.h, bq)
            current_player == pk.c
            enemy == pk.h.chars[current_player].enemy
            actions == get_available_actions(pk.h, current_player)
            winner == get_winner(pk.h, bq)
        IN  IF actions = <<>> /\ winner.c = NoChar THEN ScoreVal(0)
            ELSE IF winner.c = current_player
            THEN ScoreVal(winner.h.chars[current_player].hp)
            ELSE IF winner.c = enemy
            THEN ScoreVal(0 - winner.h.chars[enemy].hp)
            ELSE IF actions = <<"A", "S">>
            THEN LET bq_copy == battle_queue
                     made2 == copy(winner.h, bq, bq_copy)
                 IN  IF made2.err # "none" THEN ScoreErr(made2.err)
                     ELSE
                     LET pk2 == peek(made2.h, bq_copy)
                         current_player_copy == pk2.c
                         a == AfterAction(pk2.h, bq, current_player, "A")
                     IN  IF a.err # "none" THEN ScoreErr(a.err)
                         ELSE
                         LET b == AfterAction(a.h, bq_copy, current_player_copy, "S")
                         IN  IF b.err # "none" THEN ScoreErr(b.err)
                             ELSE
                             LET front == peek(b.h, bq)
                                 front_copy == peek(front.h, bq_copy)
                             IN  MaxScore(
                                    Signed(front.c = current_player,
                                           get_state_score(front_copy.h, bq)),
                                    Signed(front_copy.c = current_player_copy,
                                           get_state_score(front_copy.h, bq_copy)))
            ELSE LET a == AfterAction(winner.h, bq, current_player, "A")
                 IN  IF a.err # "none" THEN ScoreErr(a.err)
                     ELSE LET front == peek(a.h, bq)
                          IN  Signed(front.c = current_player,
                                     get_state_score(front.h, bq))

\* The heap as get_state_score(battle_queue) leaves it for its caller once it
\* has copied the queue, peeked the copy and, when the copy's front character
\* can attack, made that character's attack and conditional remove; all
\* further steps work on copies of that copy.
get_state_score_leaves(h, battle_queue) ==
    LET bq == Other(battle_queue)
        made == copy(h, battle_queue, bq)
    IN  IF made.err # "none" THEN made.h
        ELSE LET pk == peek(made.h, bq)
             IN  IF get_available_actions(pk.h, pk.c) = <<>> THEN pk.h
                 ELSE AfterAction(pk.h, bq, pk.c, "A").h

\* ------------------------------------------------------ IterativeMinimax

\* The queue object the caller passes to iterate; the queue objects that
\* copy() makes during the call are numbered 1, 2, ... in the order made.
CallerQueue == 0

\* MinimaxTree.__init__: a node with its queue (queue q of its own heap h,
\* which is queue object obj of the call), no children and no score.
MinimaxTree(h, q, obj) ==
    [h |-> h, q |-> q, obj |-> obj, children |-> <<>>, expanded |-> FALSE,
     score |-> 0, scored |-> FALSE]

\* The state of one call of iterate: the nodes made so far, the stack (of
\* node indices, top last), the number of queue copies made so far and the
\* exception raised, if any.
IterateStart(h, battle_queue) ==
    [nodes |-> <<MinimaxTree(h, battle_queue, CallerQueue)>>, stack |-> <<1>>,
     copies |-> 0, err |-> "none"]

IterateRaise(st, e) == [st EXCEPT !.err = e]

\* Node i of st with its queue as peek() left it: heap h.
Cleaned(st, i, h) == [st EXCEPT !.nodes[i].h = h]

\* The child node of a node with (cleaned) heap h and queue q for an action:
\* a copy of the queue after the action of its front character.
ChildAfter(h, q, action) ==
    LET made == copy(h, q, Other(q))
    IN  IF made.err # "none" THEN made
        ELSE LET pk == peek(made.h, Other(q))
             IN  AfterAction(pk.h, Other(q), pk.c, action)

\* only_attack_available making the child node on the node's own queue
\* object, after the attack, in place of a copy.
only_attack_available_same_queue(st, i, h) ==
    LET n == st.nodes[i]
        a == ChildAfter(h, n.q, "A")
        k == Len(st.nodes) + 1
    IN  IF a.err # "none" THEN IterateRaise(Cleaned(st, i, h), a.err)
        ELSE [st EXCEPT !.nodes = Append([@ EXCEPT ![i].children = <<k>>,
                                                   ![i].expanded = TRUE,
                                                   ![i].h = h],
                                         MinimaxTree(a.h, Other(n.q), n.obj)),
                        !.stack = @ \o <<i, k>>]

only_attack_available(st, i, h) ==
    LET n == st.nodes[i]
        a == ChildAfter(h, n.q, "A")
        k == Len(st.nodes) + 1
    IN  IF a.err # "none" THEN IterateRaise(Cleaned(st, i, h), a.err)
        ELSE [st EXCEPT !.nodes = Append([@ EXCEPT ![i].children = <<k>>,
                                                   ![i].expanded = TRUE,
                                                   ![i].h = h],
                                         MinimaxTree(a.h, Other(n.q), st.copies + 1)),
                        !.copies = @ + 1,
                        !.stack = @ \o <<i, k>>]

\* special_available pushing the node after its two children, so that it is on
\* top of them.
special_available_node_on_top(st, i, h) ==
    LET n == st.nodes[i]
        a == ChildAfter(h, n.q, "A")
        b == ChildAfter(h, n.q, "S")
        k == Len(st.nodes) + 1
    IN  IF a.err # "none" THEN IterateRaise(Cleaned(st, i, h), a.err)
        ELSE IF b.err # "none" THEN IterateRaise(Cleaned(st, i, h), b.err)
        ELSE [st EXCEPT !.nodes = [@ EXCEPT ![i].children = <<k, k + 1>>,
                                            ![i].expanded = TRUE,
                                            ![i].h = h]
                                  \o <<MinimaxTree(a.h, Other(n.q), st.copies + 1),
                                       MinimaxTree(b.h, Other(n.q), st.copies + 2)>>,
                        !.copies = @ + 2,
                        !.stack = @ \o <<k, k + 1, i>>]

special_available(st, i, h) ==
    LET n == st.nodes[i]
        a == ChildAfter(h, n.q, "A")
        b == ChildAfter(h, n.q, "S")
        k == Len(st.nodes) + 1
    IN  IF a.err # "none" THEN IterateRaise(Cleaned(st, i, h), a.err)
        ELSE IF b.err # "none" THEN IterateRaise(Cleaned(st, i, h), b.err)
        ELSE [st EXCEPT !.nodes = [@ EXCEPT ![i].children = <<k, k + 1>>,
                                            ![i].expanded = TRUE,
                                            ![i].h = h]
                                  \o <<MinimaxTree(a.h, Other(n.q), st.copies + 1),
                                       MinimaxTree(b.h, Other(n.q), st.copies + 2)>>,
                        !.copies = @ + 2,
                        !.stack = @ \o <<i, k, k + 1>>]

\* status1 and status2 of update_state: whether the front of a fresh copy of
\* the node's queue is still the same character after the action.
SameFront(h, q, action) ==
    LET made == copy(h, q, Other(q))
    IN  IF made.err # "none" THEN made
        ELSE LET pk == peek(made.h, Other(q))
                 a == AfterAction(pk.h, Other(q), pk.c, action)
             IN  IF a.err # "none" THEN a
                 ELSE Returned(a.h, NoChar, peek(a.h, Other(q)).c = pk.c)

\* update_state for the popped node i, whose queue was cleaned to heap h and
\* whose front is current_player.
update_state(st, i, h, current_player) ==
    LET n == st.nodes[i]
        actions == get_available_actions(h, current_player)
    IN  IF ~n.expanded /\ actions = <<"A">> THEN only_attack_available(st, i, h)
        ELSE IF ~n.expanded /\ actions = <<"A", "S">> THEN special_available(st, i, h)
        ELSE IF n.expanded
        THEN LET status1 == SameFront(h, n.q, "A")
                 status2 == IF Len(n.children) = 2 THEN SameFront(h, n.q, "S")
                            ELSE Returned(h, NoChar, FALSE)
                 s1 == st.nodes[n.children[1]].score
                 v1 == IF status1.b THEN s1 ELSE 0 - s1
                 s2 == st.nodes[n.children[2]].score
                 v2 == IF status2.b THEN s2 ELSE 0 - s2
             IN  IF status1.err # "none" THEN IterateRaise(Cleaned(st, i, h), status1.err)
                 ELSE IF status2.err # "none" THEN IterateRaise(Cleaned(st, i, h), status2.err)
                 ELSE [st EXCEPT !.nodes[i].h = h,
                                 !.copies = @ + Len(n.children),
                                 !.nodes[i].scored = TRUE,
                                 !.nodes[i].score =
                                    IF Len(n.children) = 2 THEN Max(v1, v2) ELSE v1]
        ELSE [st EXCEPT !.nodes[i].h = h]

\* One pass of the while loop of iterate: pop a node and score or expand it.
IterateStep(st) ==
    LET i == st.stack[Len(st.stack)]
        popped == [st EXCEPT !.stack = SubSeq(@, 1, Len(@) - 1)]
        n == st.nodes[i]
        pk == peek(n.h, n.q)
        current_player == pk.c
        enemy == pk.h.chars[current_player].enemy
        winner == get_winner(pk.h, n.q)
        SetScore(v) == [popped EXCEPT !.nodes[i].h = winner.h,
                                      !.nodes[i].scored = TRUE,
                                      !.nodes[i].score = v]
    IN  IF current_player = NoChar THEN IterateRaise(popped, "AttributeError")
        ELSE IF get_available_actions(pk.h, current_player) = <<>> /\ winner.c = NoChar
        THEN SetScore(0)
        ELSE IF winner.c = current_player
        THEN SetScore(winner.h.chars[current_player].hp)
        ELSE IF winner.c = enemy
        THEN SetScore(0 - winner.h.chars[enemy].hp)
        ELSE update_state(popped, i, winner.h, current_player)

RECURSIVE IterateLoop(_)
IterateLoop(st) ==
    IF st.stack = <<>> \/ st.err # "none" THEN st ELSE IterateLoop(IterateStep(st))

\* The states of one call of iterate, in order: the state before each pass of
\* the while loop, then the state the loop ends in.
RECURSIVE IterateTrace(_)
IterateTrace(st) ==
    IF st.stack = <<>> \/ st.err # "none" THEN <<st>>
    ELSE <<st>> \o IterateTrace(IterateStep(st))

\* The heap as iterate(battle_queue) leaves it for its caller: the root node
\* holds the caller's queue itself.
iterate_leaves(h, battle_queue) ==
    LET st == IterateLoop(IterateStart(h, battle_queue))
    IN  st.nodes[1].h

\* iterate(battle_queue): first_state.score when the loop ends.
iterate(h, battle_queue) ==
    LET st == IterateLoop(IterateStart(h, battle_queue))
    IN  IF st.err # "none" THEN ScoreErr(st.err) ELSE ScoreVal(st.nodes[1].score)

\* ----------------------------------------------------------- select_attack

\* select_attack's outcome: the heap it leaves, the action returned ('A', 'S'
\* or 'X') and the exception raised, if any.
Selected(h, a) == [h |-> h, a |-> a, err |-> "none"]
SelectRaised(h, err) == [h |-> h, a |-> "X", err |-> err]

\* The keys a player may press, None included.
Keys == {"A", "S", "Q", "None"}

\* ManualPlaystyle.select_attack(parameter)
ManualPlaystyle_select_attack(h, q, parameter) ==
    IF parameter \in {"A", "S"} THEN Selected(h, parameter) ELSE Selected(h, "X")

\* RandomPlaystyle.select_attack(): the outcomes random.choice allows.
RandomPlaystyle_select_attack(h, q) ==
    LET pk == peek(h, q)
        actions == get_available_actions(pk.h, pk.c)
    IN  IF pk.c = NoChar THEN {SelectRaised(pk.h, "AttributeError")}
        ELSE IF actions = <<>> THEN {Selected(pk.h, "X")}
        ELSE {Selected(pk.h, actions[i]) : i \in DOMAIN actions}

\* attack_score and special_score of the minimax select_attack: the score, by
\* the engine ("rec" for get_state_score, "it" for iterate), of a copy of
\* queue q of heap h after the action of the copy's front character and the
\* conditional remove, negated unless the copy's front is then current_player.
ActionScore(h, q, action, engine, current_player) ==
    LET made == copy(h, q, Other(q))
        pk == peek(made.h, Other(q))
        after == AfterAction(pk.h, Other(q), pk.c, action)
        front == peek(after.h, Other(q))
        score == IF engine = "rec" THEN get_state_score(front.h, Other(q))
                 ELSE iterate(front.h, Other(q))
    IN  IF made.err # "none" THEN ScoreErr(made.err)
        ELSE IF after.err # "none" THEN ScoreErr(after.err)
        ELSE Signed(front.c = current_player, score)

\* The comparison returning 'X' when neither score is greater.
Choose_none_on_tie(h, attack_score, special_score) ==
    IF attack_score.err # "none" THEN SelectRaised(h, attack_score.err)
    ELSE IF special_score.err # "none" THEN SelectRaised(h, special_score.err)
    ELSE IF attack_score.v > special_score.v THEN Selected(h, "A")
    ELSE IF attack_score.v < special_score.v THEN Selected(h, "S")
    ELSE Selected(h, "X")

\* The comparison that ends both minimax select_attack methods.
Choose(h, attack_score, special_score) ==
    IF attack_score.err # "none" THEN SelectRaised(h, attack_score.err)
    ELSE IF special_score.err # "none" THEN SelectRaised(h, special_score.err)
    ELSE IF attack_score.v > special_score.v THEN Selected(h, "A")
    ELSE IF attack_score.v < special_score.v THEN Selected(h, "S")
    ELSE Selected(h, "A")

\* RecursiveMinimax.select_attack(): the two copies are made first, of the
\* queue as it stands; peek then cleans the queue itself.
RecursiveMinimax_select_attack(h, q) ==
    LET made == copy(h, q, Other(q))
        pk == peek(h, q)
        current_player == pk.c
        actions == get_available_actions(pk.h, current_player)
    IN  IF made.err # "none" THEN SelectRaised(h, made.err)
        ELSE IF current_player = NoChar THEN SelectRaised(pk.h, "AttributeError")
        ELSE IF actions = <<"A">> THEN Selected(pk.h, "A")
        ELSE IF actions = <<>> THEN Selected(pk.h, "X")
        ELSE Choose(pk.h, ActionScore(h, q, "A", "rec", current_player),
                          ActionScore(h, q, "S", "rec", current_player))

\* IterativeMinimax.select_attack(): peek cleans the queue first, the two
\* copies are made of the cleaned queue.
IterativeMinimax_select_attack(h, q) ==
    LET pk == peek(h, q)
        current_player == pk.c
        actions == get_available_actions(pk.h, current_player)
    IN  IF current_player = NoChar THEN SelectRaised(pk.h, "AttributeError")
        ELSE IF actions = <<"A">> THEN Selected(pk.h, "A")
        ELSE IF actions = <<>> THEN Selected(pk.h, "X")
        ELSE Choose(pk.h, ActionScore(pk.h, q, "A", "it", current_player),
                          ActionScore(pk.h, q, "S", "it", current_player))

\* ------------------------------------------------------------ state machine

\* HP and SP the two characters are set to with set_hp and set_sp.
HpLevels == {0, 7}
SpLevels == {0, 35}

\* No call of pick_skill has been made.
NoDecision == [tree |-> <<>>, err |-> "idle", value |-> "none", node |-> 0,
               called |-> {}]

\* No call of iterate is under way.
NoSearch == [nodes |-> <<>>, stack |-> <<>>, copies |-> 0, err |-> "idle"]

\* Two characters, a Rogue and a Mage, each the other's enemy, built for a
\* fresh queue of either class; no copy exists.
Init ==
    /\ \E kind \in {"BQ", "RBQ"}, hp1, hp2 \in HpLevels, sp1, sp2 \in SpLevels :
         heap = [chars |-> [c \in CharIds |->
                              IF c = 1 THEN [cls |-> "Rogue", hp |-> hp1, sp |-> sp1,
                                             enemy |-> 2, bq |-> 1]
                              ELSE IF c = 2 THEN [cls |-> "Mage", hp |-> hp2, sp |-> sp2,
                                                  enemy |-> 1, bq |-> 1]
                              ELSE NoCharRec],
                 queues |-> [q \in QIds |->
                              IF q = 1 THEN BattleQueueInit(kind) ELSE NoQueueRec]]
    /\ last = [op |-> "init", q |-> 0, arg |-> 0, n |-> 0, c |-> NoChar, b |-> FALSE,
               err |-> "none", twice |-> FALSE, seen |-> {}]
    /\ copyOps = 0
    /\ search = NoSearch
    /\ decision = NoDecision

Alive(q) == heap.queues[q].kind # "none"

\* The caller works on the queue of the match while it holds no copy, and on
\* the copy (at most MaxCopyOps operations) while it holds one.
Turn(q) == IF q = 1 THEN ~Alive(2) ELSE Alive(2) /\ copyOps < MaxCopyOps
Spend(q) == copyOps' = IF q = 1 THEN copyOps ELSE copyOps + 1
\* The last call: its name, the queue it was made on, its argument, the length
\* of that queue's sequence when it was made, and its outcome.
\* twice says that the call repeats the call before it: the same is_empty() or
\* peek() on the same queue, with nothing done in between. seen is the set of
\* characters that an add has appended to the queue of the match so far.
Call(op, q, arg, r) ==
    last' = [op |-> op, q |-> q, arg |-> arg, n |-> Len(heap.queues[q].content),
             c |-> r.c, b |-> r.b, err |-> r.err,
             twice |-> (op \in {"is_empty", "peek"} /\ last.op = op /\ last.q = q),
             seen |-> IF op = "add" /\ q = 1
                         /\ Len(r.h.queues[1].content) > Len(heap.queues[1].content)
                      THEN last.seen \cup {arg} ELSE last.seen]

\* q.add(c)
Add(q, c) ==
    /\ Turn(q)
    /\ heap.chars[c].bq = q
    /\ Len(heap.queues[q].content) < MaxLen
    /\ heap' = add(heap, q, c)
    /\ Call("add", q, c, Returned(heap', NoChar, FALSE))
    /\ Spend(q)
    /\ UNCHANGED <<search, decision>>

\* q.remove()
Remove(q) ==
    /\ Turn(q)
    /\ LET r == remove(heap, q)
       IN  heap' = r.h /\ Call("remove", q, 0, r)
    /\ Spend(q)
    /\ UNCHANGED <<search, decision>>

\* q.peek()
Peek(q) ==
    /\ Turn(q)
    /\ LET r == peek(heap, q)
       IN  heap' = r.h /\ Call("peek", q, 0, r)
    /\ Spend(q)
    /\ UNCHANGED <<search, decision>>

\* q.is_empty()
IsEmpty(q) ==
    /\ q = 1 /\ Turn(q)
    /\ LET r == is_empty(heap, q)
       IN  heap' = r.h /\ Call("is_empty", q, 0, r)
    /\ Spend(q)
    /\ UNCHANGED <<search, decision>>

\* q.is_over()
IsOver(q) ==
    /\ q = 1 /\ Turn(q)
    /\ LET r == is_over(heap, q)
       IN  heap' = r.h /\ Call("is_over", q, 0, r)
    /\ Spend(q)
    /\ UNCHANGED <<search, decision>>

\* q.get_winner()
GetWinner(q) ==
    /\ q = 1 /\ Turn(q)
    /\ LET r == get_winner(heap, q)
       IN  heap' = r.h /\ Call("get_winner", q, 0, r)
    /\ Spend(q)
    /\ UNCHANGED <<search, decision>>

\* new = q.copy() on the queue of the match; when copy raises, the caller gets
\* no new queue.
Copy ==
    /\ Turn(1)
    /\ LET r == copy(heap, 1, 2)
       IN  /\ heap' = IF r.err = "none" THEN r.h ELSE heap
           /\ Call("copy", 1, 0, r)
    /\ copyOps' = 0
    /\ UNCHANGED <<search, decision>>

\* The caller lets go of the copy.
DropCopy ==
    /\ Alive(2)
    /\ heap' = [heap EXCEPT !.queues[2] = NoQueueRec,
                            !.chars[FirstChar(2)] = NoCharRec,
                            !.chars[SecondChar(2)] = NoCharRec]
    /\ Call("drop", 2, 0, Returned(heap', NoChar, FALSE))
    /\ copyOps' = 0
    /\ UNCHANGED <<search, decision>>

\* copy.peek().attack(), for a front character that has the action.
Attack(q) ==
    /\ q = 2 /\ Turn(q)
    /\ LET p == peek(heap, q)
       IN  /\ p.c # NoChar
           /\ get_available_actions(p.h, p.c) # <<>>
           /\ heap' = attack(p.h, p.c)
           /\ Call("attack", q, p.c, Returned(heap', NoChar, FALSE))
    /\ Spend(q)
    /\ UNCHANGED <<search, decision>>

\* copy.peek().special_attack(), for a front character that has the action.
SpecialAttack(q) ==
    /\ q = 2 /\ Turn(q)
    /\ LET p == peek(heap, q)
       IN  /\ p.c # NoChar
           /\ get_available_actions(p.h, p.c) = <<"A", "S">>
           /\ heap' = special_attack(p.h, p.c)
           /\ Call("special_attack", q, p.c, Returned(heap', NoChar, FALSE))
    /\ Spend(q)
    /\ UNCHANGED <<search, decision>>

\* c.set_sp(v)
SetSp(c, v) ==
    /\ heap.chars[c].bq = 1 /\ Turn(1)
    /\ heap.chars[c].sp # v
    /\ heap' = [heap EXCEPT !.chars[c].sp = v]
    /\ Call("set_sp", heap.chars[c].bq, c, Returned(heap', NoChar, FALSE))
    /\ Spend(heap.chars[c].bq)
    /\ UNCHANGED <<search, decision>>

\* c.set_hp(v)
SetHp(c, v) ==
    /\ heap.chars[c].bq = 1 /\ Turn(1)
    /\ heap.chars[c].hp # v
    /\ heap' = [heap EXCEPT !.chars[c].hp = v]
    /\ Call("set_hp", heap.chars[c].bq, c, Returned(heap', NoChar, FALSE))
    /\ Spend(heap.chars[c].bq)
    /\ UNCHANGED <<search, decision>>

Next ==
    \/ \E q \in QIds, c \in CharIds : Add(q, c)
    \/ \E q \in QIds : Remove(q)
    \/ \E q \in QIds : Peek(q)
    \/ \E q \in QIds : IsEmpty(q)
    \/ \E q \in QIds : IsOver(q)
    \/ \E q \in QIds : GetWinner(q)
    \/ Copy
    \/ DropCopy
    \/ \E q \in QIds : Attack(q)
    \/ \E q \in QIds : SpecialAttack(q)
    \/ \E c \in CharIds, v \in SpLevels : SetSp(c, v)
    \/ \E c \in CharIds, v \in HpLevels : SetHp(c, v)

Spec == Init /\ [][Next]_vars

\* ----------------------------------------------------------------- a match

\* HP and SP the Rogue and the Mage start a match with.
RogueHpLevels == {10, 25}
RogueSpLevels == {0, 3, 13}
MageHpLevels == {7, 15}
MageSpLevels == {0, 5, 30}

InitMatch ==
    /\ \E kind \in {"BQ", "RBQ"}, hp1 \in RogueHpLevels, sp1 \in RogueSpLevels,
          hp2 \in MageHpLevels, sp2 \in MageSpLevels :
         heap = [chars |-> [c \in CharIds |->
                              IF c = 1 THEN [cls |-> "Rogue", hp |-> hp1, sp |-> sp1,
                                             enemy |-> 2, bq |-> 1]
                              ELSE IF c = 2 THEN [cls |-> "Mage", hp |-> hp2, sp |-> sp2,
                                                  enemy |-> 1, bq |-> 1]
                              ELSE NoCharRec],
                 queues |-> [q \in QIds |->
                              IF q = 1 THEN BattleQueueInit(kind) ELSE NoQueueRec]]
    /\ last = [op |-> "init", q |-> 0, arg |-> 0, n |-> 0, c |-> NoChar, b |-> FALSE,
               err |-> "none", twice |-> FALSE, seen |-> {}]
    /\ copyOps = 0
    /\ search = NoSearch
    /\ decision = NoDecision

\* A turn of the match: the front character of the queue acts and is removed
\* from the front if it can still act.
Move(action) ==
    /\ LET p == peek(heap, 1)
       IN  /\ p.c # NoChar
           /\ \E i \in DOMAIN get_available_actions(p.h, p.c) :
                 get_available_actions(p.h, p.c)[i] = action
           /\ LET r == AfterAction(p.h, 1, p.c, action)
              IN  heap' = r.h /\ Call(action, 1, p.c, r)
    /\ UNCHANGED copyOps
    /\ UNCHANGED <<search, decision>>

NextMatch ==
    \/ \E c \in CharIds : Add(1, c)
    \/ Remove(1)
    \/ Move("A")
    \/ Move("S")

SpecMatch == InitMatch /\ [][NextMatch]_vars

\* ------------------------------------------------------ a call of iterate

\* The queue of the match is prepared with add and remove; then
\* iterate(queue) is called once and its while loop runs pass by pass.
Prepare ==
    /\ search = NoSearch
    /\ \/ \E c \in CharIds : Add(1, c)
       \/ Remove(1)

StartIterate ==
    /\ search = NoSearch
    /\ heap.queues[1].p1 # NoChar
    /\ search' = IterateStart(heap, 1)
    /\ UNCHANGED <<heap, last, copyOps, decision>>

\* The while loop goes on: the stack is not empty and no exception has left
\* the call.
Looping == search.err = "none" /\ search.stack # <<>>

\* One pass of the while loop.
Pass ==
    /\ Looping
    /\ search' = IterateStep(search)
    /\ UNCHANGED <<heap, last, copyOps, decision>>

NextIterate ==
    \/ Prepare
    \/ StartIterate
    \/ Pass

SpecIterate == InitMatch /\ [][NextIterate]_vars

\* --------------------------------------------------- a call of pick_skill

SkillNames == <<"MageAttack", "MageSpecial", "RogueAttack", "RogueSpecial",
                "VampireAttack", "VampireSpecial", "SorcererAttack",
                "SorcererSpecial">>
ConditionNames == <<"target_hp_less_than_30", "caster_sp_more_than_20",
                    "target_sp_more_than_40", "caster_hp_more_than_90",
                    "caster_hp_more_than_50">>

\* The members of a set of numbers as a list, smallest first.
RECURSIVE Ascending(_)
Ascending(S) ==
    IF S = {} THEN <<>>
    ELSE LET m == CHOOSE x \in S : \A y \in S : x <= y
         IN  <<m>> \o Ascending(S \ {m})

\* The tree of n nodes in which node i > 1 is a child of node parent[i]:
\* node i holds skill i, the priority number (i * k) % 7, which differs from
\* node to node, and, when it has children, condition function i + c; a node
\* without children is built with leaf_function.
TreeOf(n, parent, k, c) ==
    [i \in 1 .. n |->
        LET children == Ascending({j \in 2 .. n : parent[j] = i})
        IN  Node(SkillNames[i],
                 IF children = <<>> THEN "leaf_function"
                 ELSE ConditionNames[((i + c) % Len(ConditionNames)) + 1],
                 (i * k) % 7, children)]

\* The trees pick_skill is called on: every shape of at most MaxNodes nodes,
\* and the tree of create_default_tree().
Trees ==
    {create_default_tree} \cup
    UNION {{TreeOf(n, parent, k, c) :
              parent \in {f \in [2 .. n -> 1 .. n] : \A j \in 2 .. n : f[j] < j},
              k \in 1 .. 6, c \in 0 .. 4} : n \in 1 .. MaxNodes}

\* HP and SP of the caster and of the target, on both sides of the numbers
\* the condition functions compare with.
CasterHpLevels == {40, 60, 100}
CasterSpLevels == {10, 100}
TargetHpLevels == {20, 100}
TargetSpLevels == {30, 100}

\* The caster is character 1 and the target character 2; the caster holds
\* one of the trees.
InitTree ==
    /\ \E hp1 \in CasterHpLevels, sp1 \in CasterSpLevels,
          hp2 \in TargetHpLevels, sp2 \in TargetSpLevels :
         heap = [chars |-> [c \in CharIds |->
                              IF c = 1 THEN [cls |-> "Rogue", hp |-> hp1, sp |-> sp1,
                                             enemy |-> 2, bq |-> 1]
                              ELSE IF c = 2 THEN [cls |-> "Mage", hp |-> hp2, sp |-> sp2,
                                                  enemy |-> 1, bq |-> 1]
                              ELSE NoCharRec],
                 queues |-> [q \in QIds |->
                              IF q = 1 THEN BattleQueueInit("BQ") ELSE NoQueueRec]]
    /\ last = [op |-> "init", q |-> 0, arg |-> 0, n |-> 0, c |-> NoChar, b |-> FALSE,
               err |-> "none", twice |-> FALSE, seen |-> {}]
    /\ copyOps = 0
    /\ search = NoSearch
    /\ \E tree \in Trees : decision = [NoDecision EXCEPT !.tree = tree]

\* tree.pick_skill(caster, target)
PickSkill ==
    /\ decision.err = "idle"
    /\ LET p == pick_skill(decision.tree, heap, 1, 2)
       IN  decision' = [tree |-> decision.tree, err |-> p.err, value |-> p.value,
                        node |-> p.node, called |-> p.called]
    /\ UNCHANGED <<heap, last, copyOps, search>>

NextTree == PickSkill

SpecTree == InitTree /\ [][NextTree]_vars

\* ------------------------------------------------------- the use of skills

\* HP and SP of the character that uses the skills, character 1, and of its
\* enemy when the skills start being used.
UserHpLevels == {40, 95}
UserSpLevels == {10, 25}
EnemyHpLevels == {10, 30}
EnemySpLevels == {30, 45}

InitSkills ==
    /\ \E kind \in {"BQ", "RBQ"}, hp1 \in UserHpLevels, sp1 \in UserSpLevels,
          hp2 \in EnemyHpLevels, sp2 \in EnemySpLevels :
         heap = [chars |-> [c \in CharIds |->
                              IF c = 1 THEN [cls |-> "Rogue", hp |-> hp1, sp |-> sp1,
                                             enemy |-> 2, bq |-> 1]
                              ELSE IF c = 2 THEN [cls |-> "Mage", hp |-> hp2, sp |-> sp2,
                                                  enemy |-> 1, bq |-> 1]
                              ELSE NoCharRec],
                 queues |-> [q \in QIds |->
                              IF q = 1 THEN BattleQueueInit(kind) ELSE NoQueueRec]]
    /\ last = [op |-> "init", q |-> 0, arg |-> 0, n |-> 0, c |-> NoChar, b |-> FALSE,
               err |-> "none", twice |-> FALSE, seen |-> {}]
    /\ copyOps = 0
    /\ search = NoSearch
    /\ decision = NoDecision

\* skill.use(caster, caster.enemy), by character 1 while its SP covers the
\* skill's cost.
UseSkill(skill) ==
    /\ heap.chars[1].sp >= get_sp_cost(skill)
    /\ Len(heap.queues[1].content) <= MaxLen
    /\ LET r == use(heap, skill, 1, heap.chars[1].enemy)
       IN  heap' = r.h /\ Call(skill, 1, 1, r)
    /\ UNCHANGED <<copyOps, search, decision>>

NextSkills ==
    \/ \E c \in CharIds : Add(1, c)
    \/ Remove(1)
    \/ \E i \in DOMAIN SkillNames : UseSkill(SkillNames[i])

SpecSkills == InitSkills /\ [][NextSkills]_vars

\* ------------------------------------------------------- score properties

SidesSet(q) == heap.queues[q].p1 # NoChar

\* C3: for every snapshot of a match with the sides set, get_state_score and
\* iterate both return, and return the same integer.
C3_EngineEquivalence ==
    SidesSet(1) =>
        LET r == get_state_score(heap, 1)
            i == iterate(heap, 1)
        IN  r.err = "none" /\ i.err = "none" /\ r.v = i.v

\* The front character of the snapshot (queue q of heap h), the winner, and
\* whether the snapshot is one of the three terminal cases.
Front(h, q) == peek(h, q).c
Winner(h, q) == get_winner(h, q).c
Terminal(h, q) ==
    \/ get_available_actions(h, Front(h, q)) = <<>> /\ Winner(h, q) = NoChar
    \/ Winner(h, q) # NoChar

\* The score the three terminal cases give.
TerminalScore(h, q) ==
    IF Winner(h, q) = NoChar THEN 0
    ELSE IF Winner(h, q) = Front(h, q) THEN h.chars[Front(h, q)].hp
    ELSE 0 - h.chars[h.chars[Front(h, q)].enemy].hp

\* The value of the child of snapshot (h, q) for an action: the clone of the
\* snapshot after the action of its front character and the conditional
\* remove, scored by get_state_score once its front has been peeked, negated
\* when that front is no longer the character that acted.
ChildValue(h, q, action) ==
    LET clone == copy(h, q, Other(q))
        actor == Front(clone.h, Other(q))
        child == AfterAction(peek(clone.h, Other(q)).h, Other(q), actor, action)
        front == peek(child.h, Other(q))
    IN  IF clone.err # "none" THEN ScoreErr(clone.err)
        ELSE Signed(front.c = actor, get_state_score(front.h, Other(q)))

\* C4: on a snapshot that is not terminal, get_state_score returns the maximum
\* of the child values over the front character's available actions.
C4_ScoreIsMaxOfChildren ==
    (SidesSet(1) /\ ~Terminal(heap, 1)) =>
        LET actions == get_available_actions(heap, Front(heap, 1))
            a == ChildValue(heap, 1, "A")
            expected == IF actions = <<"A", "S">>
                        THEN MaxScore(a, ChildValue(heap, 1, "S")) ELSE a
        IN  /\ get_state_score(heap, 1).err = "none"
            /\ get_state_score(heap, 1) = expected

\* C5: on a terminal snapshot both score functions return 0 when there is no
\* winner, the front character's HP when it is the winner and minus its
\* enemy's HP when the enemy is; iterate makes no child node there.
C5_TerminalScores ==
    (SidesSet(1) /\ Terminal(heap, 1)) =>
        /\ get_state_score(heap, 1) = ScoreVal(TerminalScore(heap, 1))
        /\ iterate(heap, 1) = ScoreVal(TerminalScore(heap, 1))
        /\ Len(IterateLoop(IterateStart(heap, 1)).nodes) = 1

\* The available actions of the front character of the queue of the match.
FrontActions == get_available_actions(heap, Front(heap, 1))

\* The two minimax select_attack methods on the queue of the match.
MinimaxSelections ==
    {RecursiveMinimax_select_attack(heap, 1), IterativeMinimax_select_attack(heap, 1)}

\* attack_score and special_score of the two methods are both computed and
\* are equal.
EqualScores(engine) ==
    LET h == IF engine = "rec" THEN heap ELSE peek(heap, 1).h
        a == ActionScore(h, 1, "A", engine, Front(heap, 1))
        b == ActionScore(h, 1, "S", engine, Front(heap, 1))
    IN  a.err = "none" /\ b.err = "none" /\ a.v = b.v

\* C24: select_attack of RecursiveMinimax and of IterativeMinimax returns 'X'
\* when the front character has no available action, 'A' when 'A' is its only
\* available action, and 'A' when both are available and the two scores it
\* compares are equal.
C24_SentinelAndTieBreak ==
    SidesSet(1) =>
        /\ FrontActions = <<>> =>
              \A r \in MinimaxSelections : r.err = "none" /\ r.a = "X"
        /\ FrontActions = <<"A">> =>
              \A r \in MinimaxSelections : r.err = "none" /\ r.a = "A"
        /\ (FrontActions = <<"A", "S">> /\ EqualScores("rec")) =>
              RecursiveMinimax_select_attack(heap, 1).a = "A"
        /\ (FrontActions = <<"A", "S">> /\ EqualScores("it")) =>
              IterativeMinimax_select_attack(heap, 1).a = "A"

\* C25: when both actions are available, select_attack of either minimax
\* strategy returns 'S' exactly when the child value of the special attack is
\* greater than that of the attack, and the child value of the action it
\* returns is get_state_score of the queue.
C25_SelectsBestAction ==
    (SidesSet(1) /\ FrontActions = <<"A", "S">>) =>
        \A r \in MinimaxSelections :
            LET va == ChildValue(heap, 1, "A")
                vs == ChildValue(heap, 1, "S")
            IN  /\ r.err = "none" /\ va.err = "none" /\ vs.err = "none"
                /\ (r.a = "S") = (vs.v > va.v)
                /\ (IF r.a = "S" THEN vs ELSE va) = get_state_score(heap, 1)

\* C26: when the front character has no available action, select_attack of
\* every playstyle returns 'X' and raises nothing, whatever key is passed.
C26_InvalidMoveMarker ==
    (SidesSet(1) /\ FrontActions = <<>>) =>
        /\ \A k \in Keys : ManualPlaystyle_select_attack(heap, 1, k) = Selected(heap, "X")
        /\ \A r \in RandomPlaystyle_select_attack(heap, 1) : r.err = "none" /\ r.a = "X"
        /\ \A r \in MinimaxSelections : r.err = "none" /\ r.a = "X"

\* The larger of the hit-points the two characters of the match have in the
\* snapshot; hit-points are never above their maximum, so this is at most the
\* larger of the two maxima.
LargerHp == Max(heap.chars[1].hp, heap.chars[2].hp)

\* What get_state_score and iterate return for the queue of the match.
Scores == {get_state_score(heap, 1), iterate(heap, 1)}

\* C27: for every snapshot, the value that get_state_score or iterate returns
\* lies in [-H, H], H being the larger of the two characters' hit-points,
\* which no action raises.
C27_ScoreBounded ==
    SidesSet(1) =>
        \A s \in Scores : s.err = "none" => (0 - LargerHp <= s.v /\ s.v <= LargerHp)

\* Both functions return a score on the bound for a snapshot that is not
\* terminal: it comes from the recursion.
C27_Witness ==
    /\ SidesSet(1) /\ ~Terminal(heap, 1)
    /\ \A s \in Scores : s.err = "none" /\ s.v # 0 /\ (s.v = LargerHp \/ s.v = 0 - LargerHp)

\* C28: for every snapshot whose game is over (is_over() is true) and has no
\* winner (get_winner() is None), get_state_score and iterate return 0, also
\* when the queue is empty while the first side still has an available action.
C28_NoWinnerScoresZero ==
    (SidesSet(1) /\ is_over(heap, 1).b /\ get_winner(heap, 1).c = NoChar) =>
        \A s \in Scores : s = ScoreVal(0)

\* The game of the match is not over, 'A' is the only available action of the
\* front character, and its attack brings its enemy to 0 hit-points.
OnlyAttackWins ==
    /\ SidesSet(1) /\ ~is_over(heap, 1).b
    /\ FrontActions = <<"A">>
    /\ LET c == Front(heap, 1)
       IN  attack(peek(heap, 1).h, c).chars[heap.chars[c].enemy].hp = 0

\* C29: for a snapshot whose game is not over, whose acting character has 'A'
\* as its only available action, and where that attack reduces the enemy's
\* hit-points to zero, get_state_score and iterate return the acting
\* character's hit-points, whoever is at the front of the queue afterwards.
C29_WinningAttackScore ==
    OnlyAttackWins => \A s \in Scores : s = ScoreVal(heap.chars[Front(heap, 1)].hp)

\* The call iterate(battle_queue) on the queue of the match, pass by pass.
Run == IterateTrace(IterateStart(heap, 1))

\* The node popped by pass k of run t, and the passes of t that pop node i.
Popped(t, k) == t[k].stack[Len(t[k].stack)]
Pops(t, i) == {k \in 1..(Len(t) - 1) : Popped(t, k) = i}

\* Node i of run t is not terminal: its queue has no winner and its front
\* character has an action.
NonTerminal(t, i) ==
    LET n == t[Len(t)].nodes[i] IN ~Terminal(n.h, n.q)

\* Pass k of run t pops a node without children, gives it children and
\* leaves it on the stack below them.
Expands(t, k) ==
    LET i == Popped(t, k)
        before == t[k]
        after == t[k + 1]
    IN  /\ ~before.nodes[i].expanded /\ before.nodes[i].children = <<>>
        /\ after.err = "none"
        /\ after.nodes[i].expanded /\ after.nodes[i].children # <<>>
        /\ after.stack = SubSeq(before.stack, 1, Len(before.stack) - 1)
                             \o <<i>> \o after.nodes[i].children
        /\ \A j \in 1..Len(after.nodes[i].children) :
               after.nodes[i].children[j] > Len(before.nodes)

\* When pass k of run t pops its node, the node has children and each of
\* them has a score.
ChildrenScored(t, k) ==
    LET n == t[k].nodes[Popped(t, k)]
    IN  /\ n.expanded /\ n.children # <<>>
        /\ \A j \in 1..Len(n.children) : t[k].nodes[n.children[j]].scored

\* Pass k of run t scores the node it pops and leaves it off the stack.
Resolves(t, k) ==
    /\ t[k + 1].err = "none" /\ t[k + 1].nodes[Popped(t, k)].scored
    /\ t[k + 1].stack = SubSeq(t[k].stack, 1, Len(t[k].stack) - 1)

\* Run t ends by returning a score.
Returns(t) == t[Len(t)].err = "none"

\* Every pass of run t that pops a node that is not terminal either is the
\* first to pop it and expands it, or is the second and finds every child
\* scored; a pass may end the run with the exception of a copy (C7), and a
\* run that returns has popped each such node exactly twice.
PoppedTwice(t) ==
    \A i \in 1..Len(t[Len(t)].nodes) :
        NonTerminal(t, i) =>
            LET pops == Pops(t, i)
            IN  /\ Cardinality(pops) <= 2
                /\ Returns(t) => Cardinality(pops) = 2
                /\ \A k \in pops :
                       IF \A m \in pops : k <= m
                       THEN /\ ~t[k].nodes[i].expanded /\ t[k].nodes[i].children = <<>>
                            /\ t[k + 1].err = "none" => Expands(t, k)
                       ELSE /\ ChildrenScored(t, k)
                            /\ t[k + 1].err = "none" => Resolves(t, k)

ScoreWrites(t, i) ==
    {k \in Pops(t, i) : /\ t[k + 1].err = "none" /\ t[k + 1].nodes[i].scored
                        /\ t[k + 1].nodes[i].expanded = t[k].nodes[i].expanded}

\* The passes of run t that write the children of node i.
ChildrenWrites(t, i) ==
    {k \in 1..(Len(t) - 1) : /\ i <= Len(t[k].nodes)
                             /\ \/ t[k + 1].nodes[i].children # t[k].nodes[i].children
                                \/ t[k + 1].nodes[i].expanded # t[k].nodes[i].expanded}

\* Node i of run t exists before pass k and has its score.
ScoredBefore(t, i, k) == i <= Len(t[k].nodes) /\ t[k].nodes[i].scored

\* In run t every node's score is written at most once, exactly once when
\* the run returns, and stays as written; its children are written at most
\* once, by a pass before the one that writes its score; and the nodes hold
\* different queue objects.
WrittenOnce(t) ==
    LET last_nodes == t[Len(t)].nodes
    IN  /\ \A i \in 1..Len(last_nodes) :
               /\ Cardinality(ScoreWrites(t, i)) <= 1
               /\ Returns(t) => Cardinality(ScoreWrites(t, i)) = 1
               /\ \A k \in 1..(Len(t) - 1) :
                      /\ ScoredBefore(t, i, k) =>
                             /\ t[k + 1].nodes[i].scored
                             /\ t[k + 1].nodes[i].score = t[k].nodes[i].score
                             /\ t[k + 1].nodes[i].children = t[k].nodes[i].children
                      /\ (i <= Len(t[k].nodes) /\ ~t[k].nodes[i].scored
                             /\ t[k + 1].nodes[i].scored) => k \in ScoreWrites(t, i)
               /\ Cardinality(ChildrenWrites(t, i)) <= 1
               /\ \A c \in ChildrenWrites(t, i), w \in ScoreWrites(t, i) : c < w
        /\ \A i, j \in 1..Len(last_nodes) :
               last_nodes[i].obj = last_nodes[j].obj => i = j

Searching == search # NoSearch

\* C32: with skills that cost skill points and never give any, a call of
\* iterate on a snapshot with its sides set runs its while loop until the
\* stack is empty and returns, no exception raised, with the score of the
\* root node set.
C32_IterateReturns ==
    heap.queues[1].p1 # NoChar =>
        LET st == IterateLoop(IterateStart(heap, 1))
        IN  st.stack = <<>> /\ st.err = "none" /\ st.nodes[1].scored

\* Heap h holds the queue of the match and its two characters as the snapshot
\* does: the same entries in the same order, the same markers and sides, the
\* same hit-points and skill points.
SameMatchQueue(h) ==
    /\ h.queues[1] = heap.queues[1]
    /\ h.chars[1] = heap.chars[1] /\ h.chars[2] = heap.chars[2]

\* C33: get_state_score(q) and iterate(q) leave q unchanged: its sequence,
\* leading entries of characters without an available action included, and
\* the hit-points and skill points of its characters are the same after the
\* call as before.
C33_ScoresLeaveQueue ==
    SidesSet(1) =>
        /\ SameMatchQueue(get_state_score_leaves(heap, 1))
        /\ SameMatchQueue(iterate_leaves(heap, 1))

\* C34: for every state of a queue with its sides set, select_attack of
\* RecursiveMinimax and select_attack of IterativeMinimax both return, and
\* return the same marker ('A', 'S' or 'X').
C34_SameSelection ==
    SidesSet(1) =>
        LET rec == RecursiveMinimax_select_attack(heap, 1)
            it == IterativeMinimax_select_attack(heap, 1)
        IN  rec.err = "none" /\ it.err = "none" /\ rec.a = it.a

\* What select_attack of the three playstyles that are not manual may do on
\* the queue of the match.
AutomaticSelections == RandomPlaystyle_select_attack(heap, 1) \cup MinimaxSelections

ParentOf(tree, i) ==
    CHOOSE j \in DOMAIN tree : \E x \in DOMAIN tree[j].children : tree[j].children[x] = i

\* The condition of node i is true for the caster and the target.
ConditionTrue(tree, i) ==
    LET name == tree[i].condition
    IN  \/ name = "target_hp_less_than_30" /\ heap.chars[2].hp < 30
        \/ name = "caster_sp_more_than_20" /\ heap.chars[1].sp > 20
        \/ name = "target_sp_more_than_40" /\ heap.chars[2].sp > 40
        \/ name = "caster_hp_more_than_90" /\ heap.chars[1].hp > 90
        \/ name = "caster_hp_more_than_50" /\ heap.chars[1].hp > 50

\* Node i is examined: each of its ancestors has children and a true condition.
RECURSIVE Examined(_, _)
Examined(tree, i) ==
    \/ i = 1
    \/ LET j == ParentOf(tree, i)
       IN  tree[j].children # <<>> /\ ConditionTrue(tree, j) /\ Examined(tree, j)

CandidateNodes(tree) ==
    {i \in DOMAIN tree : /\ Examined(tree, i)
                         /\ (tree[i].children = <<>> \/ ~ConditionTrue(tree, i))}

\* C36: a call of pick_skill returns a skill and raises nothing; the skill is
\* the value of a candidate node whose priority number no other candidate
\* node is below, where a candidate is an examined node that has no children
\* or a false condition; and no condition of a node without children has
\* been called.
C36_PicksSmallestPriority ==
    decision.err # "idle" =>
        /\ decision.err = "none"
        /\ decision.node \in CandidateNodes(decision.tree)
        /\ \A j \in CandidateNodes(decision.tree) \ {decision.node} :
              decision.tree[decision.node].priority < decision.tree[j].priority
        /\ decision.value = decision.tree[decision.node].value
        /\ \A i \in decision.called : decision.tree[i].children # <<>>

\* pick_skill has returned the value of a node below the root that is not the
\* first candidate met, in a tree with a candidate that has children and with
\* a node that is not examined.
C36_Witness ==
    /\ decision.err = "none"
    /\ decision.node > 1
    /\ \E j \in CandidateNodes(decision.tree) : j < decision.node
    /\ \E j \in CandidateNodes(decision.tree) : decision.tree[j].children # <<>>
    /\ \E j \in DOMAIN decision.tree : ~Examined(decision.tree, j)

Restricted(q) == heap.queues[q].kind = "RBQ"

\* The entries of queue q that are character c and are marked able to add.
AbleCopies(q, c) ==
    {i \in DOMAIN heap.queues[q].content :
        heap.queues[q].content[i] = c /\ heap.queues[q].status[i] = "Y"}

\* C1: in a RestrictedBattleQueue at most two entries of the same character
\* are marked able to add ('Y') at the same time.
C1_EligibleCap ==
    \A q \in QIds : Restricted(q) =>
        \A c \in CharIds : Cardinality(AbleCopies(q, c)) <= 2

\* An add of a character that already had two 'Y' entries was marked 'N'.
C1_Witness ==
    /\ Restricted(1) /\ last.op = "add" /\ last.q = 1
    /\ Len(heap.queues[1].content) = last.n + 1
    /\ Cardinality(AbleCopies(1, last.arg)) = 2
    /\ heap.queues[1].content[last.n + 1] = last.arg
    /\ heap.queues[1].status[last.n + 1] = "N"
    /\ heap.chars[last.arg].enemy # heap.queues[1].content[1]

\* C2: in a RestrictedBattleQueue the combatant sequence and the marker
\* sequence have the same length in every reachable state.
C2_Lockstep ==
    \A q \in QIds : Restricted(q) =>
        Len(heap.queues[q].content) = Len(heap.queues[q].status)

\* A call on a RestrictedBattleQueue whose cleaning discarded entries and left
\* others behind.
C2_Witness ==
    /\ Restricted(1) /\ last.q = 1 /\ last.op \in {"peek", "is_empty", "remove"}
    /\ Len(heap.queues[1].content) >= 1
    /\ last.n >= Len(heap.queues[1].content) + 2

\* The queue and the two characters of the match.
Match == <<heap.queues[1], heap.chars[1], heap.chars[2]>>

\* C6: no operation on a copy of the queue or on the copy's characters, nor
\* the copying itself, changes the source's sequence or its characters' HP and SP.
C6_CloneIsolation ==
    [][(last'.q = 2 \/ last'.op = "copy") => Match' = Match]_vars

\* An action was applied to the front character of a copy, which added
\* entries to the copy that the source does not have.
C6_Witness ==
    /\ last.q = 2 /\ last.op \in {"attack", "special_attack"}
    /\ Len(heap.queues[2].content) > Len(heap.queues[1].content)
    /\ \E c \in {1, 2} : heap.chars[c].sp = 35

\* The copy's i-th entry is the copy of side p1 exactly when the source's
\* i-th entry is p1, and the copy of p2 otherwise.
SameOrder(src, dst) ==
    /\ Len(heap.queues[dst].content) = Len(heap.queues[src].content)
    /\ \A i \in DOMAIN heap.queues[src].content :
         heap.queues[dst].content[i] =
            IF heap.queues[src].content[i] = heap.queues[src].p1
            THEN FirstChar(dst) ELSE SecondChar(dst)

\* C7: copy() of a queue whose sides are set returns a queue with the source's
\* sequence, entry by entry, for either queue class.
C7_CopyReturnsSameSequence ==
    (last.op = "copy" /\ heap.queues[1].p1 # NoChar)
        => (last.err = "none" /\ Alive(2) /\ SameOrder(1, 2))

\* C8: the marker sequence of a RestrictedBattleQueue's copy equals the
\* source's marker sequence.
C8_CopyKeepsMarkers ==
    (last.op = "copy" /\ last.err = "none" /\ Restricted(1))
        => heap.queues[2].status = heap.queues[1].status

Sides(q) == <<heap.queues[q].p1, heap.queues[q].p2>>

\* C9: the first add(c) on a fresh queue sets the sides to c and c's enemy,
\* and no later call on that queue changes them.
C9_SidesFixed ==
    [][\A q \in QIds : (Alive(q) /\ Alive(q)') =>
          /\ heap.queues[q].p1 # NoChar => Sides(q)' = Sides(q)
          /\ (heap.queues[q].p1 = NoChar /\ last'.op = "add" /\ last'.q = q)
                => Sides(q)' = <<last'.arg, heap.chars[last'.arg].enemy>>]_vars

\* The sequence was emptied and refilled starting with the second side.
C9_Witness ==
    /\ last.op = "add" /\ last.q = 1 /\ last.n = 0
    /\ heap.queues[1].content = <<heap.queues[1].p2>>
    /\ heap.queues[1].p1 = heap.chars[heap.queues[1].p2].enemy

\* The first entry of a sequence whose character has an available action, or
\* one past the end when there is none.
RECURSIVE FirstAble(_, _, _)
FirstAble(h, content, i) ==
    IF i > Len(content) \/ get_available_actions(h, content[i]) # <<>> THEN i
    ELSE FirstAble(h, content, i + 1)

\* C10: remove() returns the first entry whose character has an available
\* action and leaves exactly the entries behind it, in their order; and no
\* call reorders entries: they leave at the front and arrive at the back.
C10_RemoveFifo ==
    [][\A q \in QIds : (Alive(q) /\ Alive(q)') =>
          LET content == heap.queues[q].content
              k == FirstAble(heap, content, 1)
          IN  /\ (last'.op = "remove" /\ last'.q = q /\ k <= Len(content)) =>
                    /\ last'.err = "none"
                    /\ last'.c = content[k]
                    /\ heap.queues[q].content' = SubSeq(content, k + 1, Len(content))
              /\ \E d \in 0 .. Len(content) :
                    /\ Len(heap.queues[q].content') >= Len(content) - d
                    /\ SubSeq(heap.queues[q].content', 1, Len(content) - d)
                         = SubSeq(content, d + 1, Len(content))]_vars

\* remove() discarded a leading entry, returned the next and left one behind.
C10_Witness ==
    /\ last.op = "remove" /\ last.q = 1 /\ last.err = "none"
    /\ Len(heap.queues[1].content) >= 1
    /\ last.n >= Len(heap.queues[1].content) + 2
    /\ get_available_actions(heap, last.c) # <<>>

\* C11: peek() returns the first entry whose character has an available
\* action and keeps it at the front, the entries before it being discarded;
\* when there is no such entry the sequence is left empty and peek() returns
\* side p1. No character changes.
C11_PeekFront ==
    [][\A q \in QIds : (last'.op = "peek" /\ last'.q = q) =>
          LET content == heap.queues[q].content
              k == FirstAble(heap, content, 1)
          IN  /\ last'.err = "none"
              /\ heap.chars' = heap.chars
              /\ Sides(q)' = Sides(q)
              /\ heap.queues[q].content' = SubSeq(content, k, Len(content))
              /\ IF k <= Len(content)
                 THEN /\ last'.c = content[k]
                      /\ get_available_actions(heap', last'.c) # <<>>
                      /\ ~is_empty(heap', q).b
                 ELSE /\ last'.c = heap.queues[q].p1
                      /\ is_empty(heap', q).b]_vars

\* peek() discarded leading entries and returned the entry behind them, which
\* stayed at the front.
C11_Witness ==
    /\ last.op = "peek" /\ last.q = 1 /\ last.err = "none"
    /\ heap.queues[1].content # <<>>
    /\ last.n > Len(heap.queues[1].content)
    /\ last.c = Head(heap.queues[1].content)
    /\ last.c # heap.queues[1].p1

\* C12: an is_empty() or peek() that repeats the call before it on the same
\* queue returns what that call returned and leaves every object as that
\* call left it.
C12_CleaningIdempotent ==
    [][last'.twice =>
          /\ heap' = heap
          /\ last'.err = "none" /\ last.err = "none"
          /\ last'.c = last.c /\ last'.b = last.b
          /\ last'.n = Len(heap.queues[last.q].content)]_vars

\* peek() was called twice in a row on a RestrictedBattleQueue and returned
\* its front entry, an entry of side p2.
C12_Witness ==
    /\ last.twice /\ last.op = "peek" /\ last.q = 1 /\ Restricted(1)
    /\ heap.queues[1].content # <<>>
    /\ last.c = Head(heap.queues[1].content)
    /\ heap.queues[1].p1 # NoChar /\ last.c # heap.queues[1].p1

\* C13: remove() on a queue in which no entry's character has an available
\* action raises and returns no character; the sides stay as they were and
\* the combatant sequence and the marker sequence are both left empty.
C13_RemoveOnEmptyRaises ==
    [][\A q \in QIds : (Alive(q) /\ last'.op = "remove" /\ last'.q = q) =>
          LET content == heap.queues[q].content
          IN  FirstAble(heap, content, 1) > Len(content) =>
                /\ last'.err # "none" /\ last'.c = NoChar
                /\ Sides(q)' = Sides(q)
                /\ heap.chars' = heap.chars
                /\ heap.queues[q].content' = <<>>
                /\ heap.queues[q].status' = <<>>]_vars

\* remove() raised on a RestrictedBattleQueue with sides, after discarding
\* every entry it held.
C13_Witness ==
    /\ last.op = "remove" /\ last.q = 1 /\ last.err = "IndexError"
    /\ Restricted(1) /\ heap.queues[1].p1 # NoChar
    /\ last.n >= 2
    /\ heap.queues[1].content = <<>> /\ heap.queues[1].status = <<>>

\* Side p1 or side p2 of queue q is set and has no HP left.
SideDown(q) ==
    \/ heap.queues[q].p1 # NoChar /\ heap.chars[heap.queues[q].p1].hp = 0
    \/ heap.queues[q].p2 # NoChar /\ heap.chars[heap.queues[q].p2].hp = 0

\* C14: is_over() returns True exactly when no entry's character has an
\* available action (the sequence is empty after cleaning) or a side has 0 HP;
\* so it returns True whenever neither character has an available action.
C14_IsOver ==
    [][\A q \in QIds : (last'.op = "is_over" /\ last'.q = q) =>
          LET content == heap.queues[q].content
              drained == FirstAble(heap, content, 1) > Len(content)
          IN  /\ last'.err = "none"
              /\ last'.b = (drained \/ SideDown(q))
              /\ (\A c \in {FirstChar(q), SecondChar(q)} :
                     get_available_actions(heap, c) = <<>>) => last'.b
              /\ heap.chars' = heap.chars /\ Sides(q)' = Sides(q)]_vars

\* is_over() returned True on a queue whose front character can act, side
\* p2 having no HP left and side p1 some.
C14_Witness ==
    /\ last.op = "is_over" /\ last.q = 1 /\ last.b
    /\ heap.queues[1].content # <<>>
    /\ heap.chars[heap.queues[1].p1].hp > 0
    /\ heap.chars[heap.queues[1].p2].hp = 0

\* The HP of the two sides of queue q, whose sides are set.
HpP1(q) == heap.chars[heap.queues[q].p1].hp
HpP2(q) == heap.chars[heap.queues[q].p2].hp

\* C15: on a queue whose sides are set, get_winner() returns None when
\* is_over() is false (an entry's character can act and both sides have HP)
\* and when the sequence is empty after cleaning while both sides have HP;
\* when exactly one side has 0 HP it returns the other side.
C15_GetWinner ==
    [][\A q \in QIds : (last'.op = "get_winner" /\ last'.q = q /\ SidesSet(q)) =>
          LET content == heap.queues[q].content
              drained == FirstAble(heap, content, 1) > Len(content)
          IN  /\ last'.err = "none"
              /\ (HpP1(q) > 0 /\ HpP2(q) > 0) => last'.c = NoChar
              /\ (~drained /\ ~SideDown(q)) => last'.c = NoChar
              /\ (HpP1(q) = 0 /\ HpP2(q) > 0) => last'.c = heap.queues[q].p2
              /\ (HpP2(q) = 0 /\ HpP1(q) > 0) => last'.c = heap.queues[q].p1
              /\ heap.chars' = heap.chars /\ Sides(q)' = Sides(q)]_vars

\* get_winner() returned side p1, side p2 alone being at 0 HP, on a queue
\* whose front character can still act.
C15_Witness ==
    /\ last.op = "get_winner" /\ last.q = 1 /\ last.err = "none"
    /\ SidesSet(1) /\ heap.queues[1].content # <<>>
    /\ HpP2(1) = 0 /\ HpP1(1) > 0
    /\ last.c = heap.queues[1].p1

\* C16: when both sides have 0 HP, get_winner() returns None.
C16_TieHasNoWinner ==
    [][\A q \in QIds : (last'.op = "get_winner" /\ last'.q = q /\ SidesSet(q)) =>
          ((HpP1(q) = 0 /\ HpP2(q) = 0) => (last'.err = "none" /\ last'.c = NoChar))]_vars

\* --------------------------------------- rules of RestrictedBattleQueue.add

\* The call just made is q.add(c) on a RestrictedBattleQueue.
RestrictedAdd(q, c) ==
    Restricted(q) /\ last'.op = "add" /\ last'.q = q /\ last'.arg = c

\* The add appended c with the marker, and changed nothing else of the queue.
Appended(q, c, mark) ==
    /\ heap.queues[q].content' = Append(heap.queues[q].content, c)
    /\ heap.queues[q].status' = Append(heap.queues[q].status, mark)

\* The very first add, and the add of the second side behind the first alone.
FirstBootstrap(q) == heap.queues[q].content = <<>> /\ ~SidesSet(q)
SecondBootstrap(q, c) ==
    /\ SidesSet(q)
    /\ \/ heap.queues[q].content = <<heap.queues[q].p1>> /\ c = heap.queues[q].p2
       \/ heap.queues[q].content = <<heap.queues[q].p2>> /\ c = heap.queues[q].p1

\* Outside the bootstrap cases, with a front entry that is marked 'Y'.
FrontAdds(q, c) ==
    /\ ~FirstBootstrap(q) /\ ~SecondBootstrap(q, c)
    /\ heap.queues[q].status # <<>> /\ Head(heap.queues[q].status) = "Y"

\* C17: on a RestrictedBattleQueue the very first add appends the character
\* marked 'Y' and sets the sides; an add of side p2 to the sequence [p1], or
\* of side p1 to the sequence [p2], appends the character marked 'Y'.
C17_Bootstrap ==
    [][\A q \in QIds, c \in CharIds : RestrictedAdd(q, c) =>
          /\ FirstBootstrap(q) =>
                /\ Appended(q, c, "Y")
                /\ heap.queues[q].content' = <<c>>
                /\ Sides(q)' = <<c, heap.chars[c].enemy>>
          /\ SecondBootstrap(q, c) =>
                (Appended(q, c, "Y") /\ Sides(q)' = Sides(q))]_vars

\* Side p1 was added to the sequence [p2], whose entry was marked 'N'.
C17_Witness ==
    /\ Restricted(1) /\ last.op = "add" /\ last.q = 1 /\ last.n = 1
    /\ heap.queues[1].content = <<heap.queues[1].p2, heap.queues[1].p1>>
    /\ heap.queues[1].status = <<"N", "Y">>
    /\ last.arg = heap.queues[1].p1

\* C18: outside the bootstrap cases, when the front entry is marked 'Y' and
\* the character added is the enemy of the front entry's character, add
\* appends the character marked 'N'.
C18_AddedByEnemy ==
    [][\A q \in QIds, c \in CharIds : RestrictedAdd(q, c) =>
          ((FrontAdds(q, c) /\ Head(heap.queues[q].content) = heap.chars[c].enemy)
              => Appended(q, c, "N"))]_vars

\* A(Y) -> B(Y) became A(Y) -> B(Y) -> B(N).
C18_Witness ==
    /\ Restricted(1) /\ last.op = "add" /\ last.q = 1 /\ last.n = 2
    /\ heap.queues[1].content =
          <<heap.queues[1].p1, heap.queues[1].p2, heap.queues[1].p2>>
    /\ heap.queues[1].status = <<"Y", "Y", "N">>

\* C19: outside the bootstrap cases, when the front entry is marked 'Y' and
\* the character added is not the enemy of the front entry's character, add
\* appends the character, marked 'Y' exactly when fewer than two entries are
\* that character marked 'Y'.
C19_ThirdRule ==
    [][\A q \in QIds, c \in CharIds : RestrictedAdd(q, c) =>
          ((FrontAdds(q, c) /\ Head(heap.queues[q].content) # heap.chars[c].enemy)
              => Appended(q, c, IF Cardinality(AbleCopies(q, c)) < 2
                                THEN "Y" ELSE "N"))]_vars

\* A character with one entry marked 'Y' and one marked 'N' added itself and
\* the new entry is marked 'Y'.
C19_Witness ==
    /\ Restricted(1) /\ last.op = "add" /\ last.q = 1 /\ last.n = 2
    /\ heap.queues[1].content = <<last.arg, last.arg, last.arg>>
    /\ heap.queues[1].status = <<"Y", "N", "Y">>

\* C20: on a RestrictedBattleQueue whose sides are set and whose two
\* sequences are empty, add of either character appends it marked 'Y'.
C20_DrainedRestart ==
    [][\A q \in QIds, c \in CharIds : RestrictedAdd(q, c) =>
          ((SidesSet(q) /\ heap.queues[q].content = <<>>
               /\ heap.queues[q].status = <<>>)
              => (/\ heap.queues[q].content' = <<c>>
                  /\ heap.queues[q].status' = <<"Y">>
                  /\ Sides(q)' = Sides(q)))]_vars

\* Side p2 was added to a drained RestrictedBattleQueue and is marked 'Y'.
C20_Witness ==
    /\ Restricted(1) /\ last.op = "add" /\ last.q = 1 /\ last.n = 0
    /\ SidesSet(1) /\ last.arg = heap.queues[1].p2
    /\ heap.queues[1].content = <<last.arg>>
    /\ heap.queues[1].status = <<"Y">>

\* C21: outside the bootstrap cases an add to a RestrictedBattleQueue whose
\* front entry is marked 'N' changes nothing and raises nothing; every other
\* add lengthens the combatant sequence and the marker sequence by one.
C21_AddIgnoredBehindN ==
    [][\A q \in QIds, c \in CharIds : RestrictedAdd(q, c) =>
          /\ last'.err = "none"
          /\ IF /\ ~FirstBootstrap(q) /\ ~SecondBootstrap(q, c)
                /\ heap.queues[q].status # <<>>
                /\ Head(heap.queues[q].status) = "N"
             THEN heap' = heap
             ELSE /\ Len(heap.queues[q].content') = Len(heap.queues[q].content) + 1
                  /\ Len(heap.queues[q].status') = Len(heap.queues[q].status) + 1]_vars

\* An add to a sequence of two entries, the front one marked 'N', was ignored.
C21_Witness ==
    /\ Restricted(1) /\ last.op = "add" /\ last.q = 1 /\ last.err = "none"
    /\ last.n = 2 /\ Len(heap.queues[1].content) = 2
    /\ Head(heap.queues[1].status) = "N"

\* C22: the entry that the first add of each of the two characters appends to
\* a RestrictedBattleQueue is marked 'Y'.
C22_FirstAddEligible ==
    [][\A c \in CharIds :
          (RestrictedAdd(1, c) /\ c \notin last.seen /\ c \in last'.seen) =>
              heap.queues[1].status'[Len(heap.queues[1].status')] = "Y"]_vars

\* The entries of queue q, each with its marker.
Pairs(q) ==
    [i \in 1 .. Len(heap.queues[q].content) |->
        <<heap.queues[q].content[i], heap.queues[q].status[i]>>]

\* C23: every call on a RestrictedBattleQueue leaves the entries behind those
\* it took from the front, each with the marker it had, followed by the
\* entries it appended: add takes none and appends at most one, an action of
\* the front character appends at most two, the other calls append none.
C23_MarkersFixed ==
    [][\A q \in QIds : (Restricted(q) /\ Alive(q)' /\ last'.q = q) =>
          LET appended == IF last'.op = "add" THEN 1
                          ELSE IF last'.op \in {"attack", "special_attack"} THEN 2
                          ELSE 0
              taken == IF last'.op = "add" THEN 0 ELSE Len(Pairs(q))
          IN  \E d \in 0 .. taken :
                 /\ Len(Pairs(q)') >= Len(Pairs(q)) - d
                 /\ Len(Pairs(q)') <= Len(Pairs(q)) - d + appended
                 /\ SubSeq(Pairs(q)', 1, Len(Pairs(q)) - d)
                       = SubSeq(Pairs(q), d + 1, Len(Pairs(q)))]_vars

\* remove() took the front entry of three, and the entries left are one
\* marked 'Y' followed by one marked 'N'.
C23_Witness ==
    /\ Restricted(1) /\ last.op = "remove" /\ last.q = 1 /\ last.err = "none"
    /\ last.n = 3
    /\ heap.queues[1].status = <<"Y", "N">>

====
